---------------------------- MODULE Spec2Model ----------------------------
(***************************************************************************)
(* Model of verses.py: the Devanagari syllable segmenter, the metrics      *)
(* computed over the Laghu/Guru sequence, and the Pingala counter.         *)
(*                                                                         *)
(* Text is a sequence of Unicode code points (integers).  Floats that the  *)
(* program rounds are kept as scaled integers: `ratio' in hundredths       *)
(* (round(x, 2)) and `entropy' in thousandths (round(x, 3)).               *)
(***************************************************************************)
EXTENDS Integers, Sequences, FiniteSets, TLC

VARIABLES
    verse,      \* the text typed into the text area
    pc,         \* position of the running computation
    i,          \* 1-based position of the `for ch in verse' loop
    syllables,  \* list of syllables (each a sequence of code points)
    LG,         \* list of weights, "L" or "G"
    current,    \* accumulation buffer of the scan
    counts,     \* Counter(LG): function from the observed symbols to counts
    total, lcount, gcount, ratio, heaviness, entropy,
    trans,      \* transition matrix
    parts,      \* arity handed to split_padas
    padas,      \* result of split_padas
    n, a, b, iters, result   \* pingala_count: argument, accumulators, loop count, return value

vars == <<verse, pc, i, syllables, LG, current, counts, total, lcount, gcount,
          ratio, heaviness, entropy, trans, parts, padas, n, a, b, iters, result>>

segVars == <<verse, i, syllables, LG, current>>
metricVars == <<counts, total, lcount, gcount, ratio, heaviness, entropy>>
shapeVars == <<trans, parts, padas>>
pingalaVars == <<n, a, b, iters, result>>

-----------------------------------------------------------------------------
(* Bounds of the model *)

\* longest verse, in code points
MaxLen == 4
\* longest weight sequence handed directly to the sequence metrics
MaxSyll == 6
\* largest arity handed to split_padas
MaxParts == 5
\* largest |n| handed to pingala_count
MaxN == 14
\* largest n for which the L/G compositions of weight n are enumerated
MaxWeight == 8
\* largest total of a Counter handed to the summary metrics
MaxTotal == 200
\* a long run of one symbol (with a few of the other) for the entropy
BigRun == 65535
\* how many of the other symbol accompany BigRun
MaxOdd == 2

-----------------------------------------------------------------------------
(* Generic helpers *)

Min(x, y) == IF x <= y THEN x ELSE y
Max(x, y) == IF x >= y THEN x ELSE y

\* all sequences over S of length 0..k
SeqsUpTo(S, k) == UNION {[1..m -> S] : m \in 0..k}

\* Python slice s[lo:hi] for 0 <= lo <= hi (0-based, hi exclusive, clipped)
Slice(s, lo, hi) ==
    LET l == Min(lo, Len(s))
        h == Min(hi, Len(s))
    IN  IF h <= l THEN <<>> ELSE [k \in 1..(h - l) |-> s[l + k]]

\* the characters of a Python string literal, as a set (`ch in "..."')
Chars(s) == {s[k] : k \in 1..Len(s)}

-----------------------------------------------------------------------------
(* Sanskrit syllable processing *)

VOWELS == <<2309, 2310, 2311, 2312, 2313, 2314, 2315, 2319, 2320, 2323, 2324>>
MATRAS == <<2366, 2367, 2368, 2369, 2370, 2371, 2375, 2376, 2379, 2380>>
LONG_VOWELS == <<2310, 2312, 2314, 2319, 2320, 2323, 2324>>
LONG_MATRAS == <<2366, 2368, 2370, 2375, 2376, 2379, 2380>>

\* str.isspace() of one code point: the Unicode whitespace code points
WHITESPACE == (9..13) \cup (28..32) \cup {133, 160, 5760} \cup (8192..8202)
              \cup {8232, 8233, 8239, 8287, 12288}
\* a bug: whitespace is not skipped
IsSpaceNever(ch) == FALSE
IsSpace(ch) == ch \in WHITESPACE

\* the code points verses are drawn from: space, KA, Latin a, short and long
\* independent vowel (A, AA), short and long vowel sign (I, AA)
Alphabet == {32, 2325, 97, 2309, 2310, 2367, 2366}
Verses == SeqsUpTo(Alphabet, MaxLen)

\* str.strip(): leading and trailing whitespace removed
RECURSIVE LStrip(_)
LStrip(s) == IF s # <<>> /\ IsSpace(Head(s)) THEN LStrip(Tail(s)) ELSE s
RECURSIVE RStrip(_)
RStrip(s) == IF s # <<>> /\ IsSpace(s[Len(s)]) THEN RStrip(SubSeq(s, 1, Len(s) - 1)) ELSE s
Strip(s) == RStrip(LStrip(s))

\* 'G' if ch in "<long independent vowels>" else 'L'
WeightOfVowel(ch) == IF ch \in Chars(LONG_VOWELS) THEN "G" ELSE "L"

\* a bug: the long independent vowels are looked up for a vowel sign too
WeightOfMatraByVowels(ch) == IF ch \in Chars(LONG_VOWELS) THEN "G" ELSE "L"

\* 'G' if ch in "<long vowel signs>" else 'L'
WeightOfMatra(ch) == IF ch \in Chars(LONG_MATRAS) THEN "G" ELSE "L"

\* a bug: a bare vowel, with nothing buffered before it, records no syllable
FlushedUnlessBare(sylls, buf) == IF Len(buf) = 1 THEN sylls ELSE Append(sylls, buf)

\* syllables.append(current)
Flushed(sylls, buf) == Append(sylls, buf)

\* entry of verse_to_LG_and_syllables: the three locals, loop at the first char
SegEnter ==
    /\ syllables' = <<>>
    /\ LG' = <<>>
    /\ current' = <<>>
    /\ i' = 1
    /\ pc' = "scan"

\* the Analyze button: the pipeline runs only on a non-blank verse
Click ==
    /\ pc = "idle"
    /\ Strip(verse) # <<>>
    /\ SegEnter
    /\ UNCHANGED <<verse, metricVars, shapeVars, pingalaVars>>

\* a direct call of verse_to_LG_and_syllables(verse), any text
CallSeg ==
    /\ pc = "idle"
    /\ SegEnter
    /\ UNCHANGED <<verse, metricVars, shapeVars, pingalaVars>>

\* one iteration of `for ch in verse'
ScanStep ==
    /\ pc = "scan"
    /\ i <= Len(verse)
    /\ LET ch == verse[i]
           buf == Append(current, ch)
       IN  IF IsSpace(ch)
           THEN UNCHANGED <<syllables, LG, current>>
           ELSE IF ch \in Chars(VOWELS)
           THEN /\ syllables' = Flushed(syllables, buf)
                /\ LG' = Append(LG, WeightOfVowel(ch))
                /\ current' = <<>>
           ELSE IF ch \in Chars(MATRAS)
           THEN /\ syllables' = Flushed(syllables, buf)
                /\ LG' = Append(LG, WeightOfMatra(ch))
                /\ current' = <<>>
           ELSE /\ current' = buf
                /\ UNCHANGED <<syllables, LG>>
    /\ i' = i + 1
    /\ UNCHANGED <<verse, pc, metricVars, shapeVars, pingalaVars>>

\* a bug: the trailing buffer is flushed as a last syllable
ScanReturnFlushing ==
    /\ pc = "scan"
    /\ i > Len(verse)
    /\ pc' = "segmented"
    /\ syllables' = IF current = <<>> THEN syllables ELSE Append(syllables, current)
    /\ UNCHANGED <<verse, i, LG, current, metricVars, shapeVars, pingalaVars>>

\* the loop is exhausted: return syllables, LG (the buffer is dropped)
ScanReturn ==
    /\ pc = "scan"
    /\ i > Len(verse)
    /\ pc' = "segmented"
    /\ UNCHANGED <<segVars, metricVars, shapeVars, pingalaVars>>


-----------------------------------------------------------------------------
(* Counts, ratio and heaviness *)

\* collections.Counter over a sequence: only the observed symbols are keys
Counter(lg) ==
    [s \in {lg[k] : k \in 1..Len(lg)} |-> Cardinality({k \in 1..Len(lg) : lg[k] = s})]

\* dict.get(key, default)
Get(cnt, key, default) == IF key \in DOMAIN cnt THEN cnt[key] ELSE default

\* (r * 2^k) % y, eight doublings at a time
RECURSIVE ShiftMod(_, _, _)
ShiftMod(r, k, y) ==
    IF k = 0 THEN r
    ELSE IF k >= 8 THEN ShiftMod((r * 256) % y, k - 8, y)
    ELSE ShiftMod((2 * r) % y, k - 1, y)

\* The sign of RN(x / y) - x / y for 0 < x < y, RN being the IEEE-754 double
\* nearest to the quotient (ties to even).  The quotient's first significant
\* bit is bit `first' after the binary point and its 53rd is bit first + 52;
\* the remainder of the long division after that bit decides.
FloatDivError(x, y) ==
    LET first == CHOOSE j \in 1..30 :
                    /\ 2 ^ j >= (y + x - 1) \div x
                    /\ \A m \in 1..(j - 1) : 2 ^ m < (y + x - 1) \div x
        prev == ShiftMod(x, first + 51, y)
        last == IF 2 * prev >= y THEN 1 ELSE 0
        rem == (2 * prev) % y
    IN  IF rem = 0 THEN 0
        ELSE IF 2 * rem > y THEN 1
        ELSE IF 2 * rem < y THEN -1
        ELSE IF last = 1 THEN 1 ELSE -1

\* round(x / y, 2) in hundredths, for 0 <= x <= y, y > 0: the double x / y is
\* rounded correctly to two decimals, an exact half going to the even digit
Round2(x, y) ==
    LET q == (100 * x) \div y
        r == (100 * x) % y
    IN  IF 2 * r < y THEN q
        ELSE IF 2 * r > y THEN q + 1
        ELSE LET e == FloatDivError(x, y)
             IN  IF e > 0 THEN q + 1
                 ELSE IF e < 0 THEN q
                 ELSE IF q % 2 = 0 THEN q ELSE q + 1

\* ratio = round(gcount / total, 2) if total else 0      (hundredths)
Ratio(g, t) == IF t # 0 THEN Round2(g, t) ELSE 0

\* a bug: a ratio of exactly 0.5 counts as heavy
HeavinessFromHalf(r) ==
    IF r >= 50 THEN "Heavy"
    ELSE IF r >= 40 THEN "Balanced"
    ELSE "Light"

\* the heaviness label of a ratio given in hundredths
Heaviness(r) ==
    IF r > 50 THEN "Heavy"
    ELSE IF r >= 40 THEN "Balanced"
    ELSE "Light"

-----------------------------------------------------------------------------
(* Shannon entropy, in binary fixed point with 24 fractional bits.  On     *)
(* every Counter the model feeds it the value in thousandths is the one    *)
(* CPython's floats give.                                                   *)

ONE == 2 ^ 24
HALF_WORD == 2 ^ 12

\* v / t as a fixed-point number, for 0 <= v <= t
FixDiv(v, t) ==
    LET q1 == (v * HALF_WORD) \div t
        r1 == (v * HALF_WORD) % t
    IN  q1 * HALF_WORD + (r1 * HALF_WORD) \div t

\* the product of two fixed-point numbers, by half words
FixMul(x, y) ==
    LET xh == x \div HALF_WORD
        xl == x % HALF_WORD
        yh == y \div HALF_WORD
        yl == y % HALF_WORD
    IN  xh * yh + (xh * yl + xl * yh) \div HALF_WORD + (xl * yl) \div ONE

\* the fractional bits of log2(m / ONE) for m in [ONE, 2 * ONE), by squaring
RECURSIVE Log2Frac(_, _)
Log2Frac(m, k) ==
    IF k > 24 THEN 0
    ELSE LET sq == FixMul(m, m)
         IN  IF sq >= 2 * ONE
             THEN 2 ^ (24 - k) + Log2Frac(sq \div 2, k + 1)
             ELSE Log2Frac(sq, k + 1)

\* p shifted left until it lies in [ONE, 2 * ONE): <<mantissa, exponent>>
RECURSIVE Normalise(_, _)
Normalise(p, e) == IF p >= ONE THEN <<p, e>> ELSE Normalise(2 * p, e + 1)

\* -math.log2(p) for a fixed-point p in (0, 1]
NegLog2(p) ==
    LET me == Normalise(p, 0)
    IN  me[2] * ONE - Log2Frac(me[1], 1)

\* a bug: math.log in place of math.log2 (ln 2 = 11629080 / 2^24)
EntropyTermNats(v, t) ==
    LET p == FixDiv(v, t)
    IN  FixMul(FixMul(NegLog2(p), 11629080), p)

\* p = v / total; the summand -p * math.log2(p)
EntropyTerm(v, t) ==
    LET p == FixDiv(v, t)
    IN  FixMul(NegLog2(p), p)

\* round(entropy, 3) in thousandths: e * 1000 / ONE = e * 125 / 2^21
Round3(e) ==
    LET q == (e * 125) \div (2 ^ 21)
        r == (e * 125) % (2 ^ 21)
    IN  IF r > 2 ^ 20 THEN q + 1
        ELSE IF r < 2 ^ 20 THEN q
        ELSE q + (q % 2)

RECURSIVE SumTerms(_, _, _)
SumTerms(cnt, keys, t) ==
    IF keys = {} THEN 0
    ELSE LET s == CHOOSE x \in keys : TRUE
         IN  EntropyTerm(cnt[s], t) + SumTerms(cnt, keys \ {s}, t)

\* the body of shannon_entropy once total and counts are known
EntropyOf(cnt, t) == IF t = 0 THEN 0 ELSE Round3(SumTerms(cnt, DOMAIN cnt, t))

shannon_entropy(lg) == EntropyOf(Counter(lg), Len(lg))

-----------------------------------------------------------------------------
(* Transition matrix and pada split *)

Symbols == {"L", "G"}

\* zip(s, t): pairs up to the shorter argument
Zip(s, t) == [k \in 1..Min(Len(s), Len(t)) |-> <<s[k], t[k]>>]

RECURSIVE CountPairs(_, _)
CountPairs(mat, pairs) ==
    IF pairs = <<>> THEN mat
    ELSE CountPairs([mat EXCEPT ![Head(pairs)] = @ + 1], Tail(pairs))

\* a bug: zip(LG, LG), every symbol paired with itself
transition_matrix_self(lg) ==
    CountPairs([pr \in Symbols \X Symbols |-> 0], Zip(lg, lg))

transition_matrix(lg) ==
    CountPairs([pr \in Symbols \X Symbols |-> 0], Zip(lg, Slice(lg, 1, Len(lg))))

\* a bug: size = len(LG) // parts, without the floor of 1
split_padas_unfloored(lg, p) ==
    LET size == Len(lg) \div p
    IN  [k \in 1..p |-> Slice(lg, (k - 1) * size, k * size)]

split_padas(lg, p) ==
    LET size == Max(1, Len(lg) \div p)
    IN  [k \in 1..p |-> Slice(lg, (k - 1) * size, k * size)]

\* the default of split_padas's `parts' parameter
DefaultParts == 4

-----------------------------------------------------------------------------
(* Pingala recursion *)

\* a bug: a, b = a, a + b
PingalaBodyUnshifted(x, y) == <<x, x + y>>

\* a, b = b, a + b
PingalaBody(x, y) == <<y, x + y>>

RECURSIVE PingalaLoop(_, _, _, _)
PingalaLoop(x, y, k, m) ==
    IF k > m THEN y
    ELSE PingalaLoop(PingalaBody(x, y)[1], PingalaBody(x, y)[2], k + 1, m)

pingala_count(m) ==
    IF m <= 0 THEN 0
    ELSE IF m = 1 THEN 1
    ELSE PingalaLoop(1, 2, 3, m)

-----------------------------------------------------------------------------
(* The analysis pipeline *)

NoMatrix == [pr \in Symbols \X Symbols |-> 0]

\* the rest of the `if st.button(...)' block once the segmenter has returned
Metrics ==
    /\ pc = "segmented"
    /\ LET t == Len(LG)
           c == Counter(LG)
           g == Get(c, "G", 0)
           r == Ratio(g, t)
       IN  /\ total' = t
           /\ counts' = c
           /\ lcount' = Get(c, "L", 0)
           /\ gcount' = g
           /\ ratio' = r
           /\ heaviness' = Heaviness(r)
           /\ entropy' = shannon_entropy(LG)
           /\ trans' = transition_matrix(LG)
           /\ parts' = DefaultParts
           /\ padas' = split_padas(LG, DefaultParts)
           /\ n' = t
           /\ result' = pingala_count(t)
    /\ pc' = "done"
    /\ UNCHANGED <<segVars, a, b, iters>>

Init ==
    /\ verse \in Verses
    /\ pc = "idle"
    /\ i = 0
    /\ syllables = <<>>
    /\ LG = <<>>
    /\ current = <<>>
    /\ counts = <<>>
    /\ total = 0
    /\ lcount = 0
    /\ gcount = 0
    /\ ratio = 0
    /\ heaviness = ""
    /\ entropy = 0
    /\ trans = NoMatrix
    /\ parts = DefaultParts
    /\ padas = <<>>
    /\ n = 0
    /\ a = 0
    /\ b = 0
    /\ iters = 0
    /\ result = -1

Next == Click \/ ScanStep \/ ScanReturn \/ Metrics

\* the program: a verse is typed, the button runs the pipeline on it
Spec == Init /\ [][Next]_vars

NextSeg == CallSeg \/ ScanStep \/ ScanReturn

\* verse_to_LG_and_syllables called on any text
SpecSeg == Init /\ [][NextSeg]_vars

-----------------------------------------------------------------------------
(* The summary metrics on the Counter of a weight sequence.  ratio,        *)
(* heaviness and entropy read the weights only through Counter(LG) and     *)
(* len(LG), so a weight sequence is given here by its two counts.          *)

CounterOf(l, g) ==
    [s \in {x \in Symbols : (x = "L" /\ l > 0) \/ (x = "G" /\ g > 0)} |->
        IF s = "L" THEN l ELSE g]

CountPairsIn ==
    {<<l, g>> \in (0..MaxTotal) \X (0..MaxTotal) : l + g <= MaxTotal}
    \cup {<<BigRun, g>> : g \in 0..MaxOdd}

InitCounts ==
    /\ \E lg \in CountPairsIn : counts = CounterOf(lg[1], lg[2])
    /\ pc = "counted"
    /\ verse = <<>>
    /\ i = 0
    /\ syllables = <<>>
    /\ LG = <<>>
    /\ current = <<>>
    /\ total = 0
    /\ lcount = 0
    /\ gcount = 0
    /\ ratio = 0
    /\ heaviness = ""
    /\ entropy = 0
    /\ trans = NoMatrix
    /\ parts = DefaultParts
    /\ padas = <<>>
    /\ n = 0
    /\ a = 0
    /\ b = 0
    /\ iters = 0
    /\ result = -1

\* total, lcount, gcount, ratio, heaviness and entropy of the counted weights
Summarise ==
    /\ pc = "counted"
    /\ LET l == Get(counts, "L", 0)
           g == Get(counts, "G", 0)
           r == Ratio(g, l + g)
       IN  /\ total' = l + g
           /\ lcount' = l
           /\ gcount' = g
           /\ ratio' = r
           /\ heaviness' = Heaviness(r)
           /\ entropy' = EntropyOf(counts, l + g)
    /\ pc' = "done"
    /\ UNCHANGED <<segVars, counts, shapeVars, pingalaVars>>

NextCounts == Summarise

SpecCounts == InitCounts /\ [][NextCounts]_vars

-----------------------------------------------------------------------------
(* transition_matrix and split_padas on any weight sequence and arity *)

Weights == SeqsUpTo(Symbols, MaxSyll)

InitShape ==
    /\ LG \in Weights
    /\ parts \in 1..MaxParts
    /\ pc = "weights"
    /\ verse = <<>>
    /\ i = 0
    /\ syllables = <<>>
    /\ current = <<>>
    /\ counts = <<>>
    /\ total = 0
    /\ lcount = 0
    /\ gcount = 0
    /\ ratio = 0
    /\ heaviness = ""
    /\ entropy = 0
    /\ trans = NoMatrix
    /\ padas = <<>>
    /\ n = 0
    /\ a = 0
    /\ b = 0
    /\ iters = 0
    /\ result = -1

Transitions ==
    /\ pc = "weights"
    /\ trans' = transition_matrix(LG)
    /\ pc' = "matrix"
    /\ UNCHANGED <<segVars, metricVars, parts, padas, pingalaVars>>

SplitPadas ==
    /\ pc = "matrix"
    /\ padas' = split_padas(LG, parts)
    /\ pc' = "done"
    /\ UNCHANGED <<segVars, metricVars, parts, trans, pingalaVars>>

NextShape == Transitions \/ SplitPadas

SpecShape == InitShape /\ [][NextShape]_vars

-----------------------------------------------------------------------------
(* pingala_count, statement by statement *)

InitPingala ==
    /\ n \in (-MaxN)..MaxN
    /\ pc = "call"
    /\ a = 0
    /\ b = 0
    /\ iters = 0
    /\ result = -1
    /\ verse = <<>>
    /\ i = 0
    /\ syllables = <<>>
    /\ LG = <<>>
    /\ current = <<>>
    /\ counts = <<>>
    /\ total = 0
    /\ lcount = 0
    /\ gcount = 0
    /\ ratio = 0
    /\ heaviness = ""
    /\ entropy = 0
    /\ trans = NoMatrix
    /\ parts = DefaultParts
    /\ padas = <<>>

\* a bug: the accumulators start at 1, 1 (the Fibonacci numbers proper)
PingalaCallFibonacci ==
    /\ pc = "call"
    /\ IF n <= 0
       THEN result' = 0 /\ pc' = "returned" /\ UNCHANGED <<a, b>>
       ELSE IF n = 1
       THEN result' = 1 /\ pc' = "returned" /\ UNCHANGED <<a, b>>
       ELSE a' = 1 /\ b' = 1 /\ pc' = "loop" /\ UNCHANGED result
    /\ UNCHANGED <<segVars, metricVars, shapeVars, n, iters>>

\* the two early returns, or a, b = 1, 2 and the loop
PingalaCall ==
    /\ pc = "call"
    /\ IF n <= 0
       THEN result' = 0 /\ pc' = "returned" /\ UNCHANGED <<a, b>>
       ELSE IF n = 1
       THEN result' = 1 /\ pc' = "returned" /\ UNCHANGED <<a, b>>
       ELSE a' = 1 /\ b' = 2 /\ pc' = "loop" /\ UNCHANGED result
    /\ UNCHANGED <<segVars, metricVars, shapeVars, n, iters>>

\* one iteration of `for _ in range(3, n + 1)'
PingalaStep ==
    /\ pc = "loop"
    /\ 3 + iters <= n
    /\ a' = PingalaBody(a, b)[1]
    /\ b' = PingalaBody(a, b)[2]
    /\ iters' = iters + 1
    /\ UNCHANGED <<segVars, metricVars, shapeVars, pc, n, result>>

\* return b
PingalaReturn ==
    /\ pc = "loop"
    /\ 3 + iters > n
    /\ result' = b
    /\ pc' = "returned"
    /\ UNCHANGED <<segVars, metricVars, shapeVars, n, a, b, iters>>

NextPingala == PingalaCall \/ PingalaStep \/ PingalaReturn

SpecPingala == InitPingala /\ [][NextPingala]_vars

-----------------------------------------------------------------------------
(* Vocabulary of the properties *)

\* the vowel-bearing code points: independent vowels and dependent vowel signs
VowelBearing == Chars(VOWELS) \cup Chars(MATRAS)

\* the long independent vowels AA II UU E AI O AU and the long signs of the same
LongVowelBearing == {2310, 2312, 2314, 2319, 2320, 2323, 2324,
                     2366, 2368, 2370, 2375, 2376, 2379, 2380}

WeightByLength(ch) == IF ch \in LongVowelBearing THEN "G" ELSE "L"

\* the verse without its whitespace
Unspaced(v) == SelectSeq(v, LAMBDA c : c \notin WHITESPACE)

\* the vowel-bearing code points of the verse, in order
VowelsIn(v) == SelectSeq(v, LAMBDA c : c \in VowelBearing)

RECURSIVE Concat(_)
Concat(ss) == IF ss = <<>> THEN <<>> ELSE Head(ss) \o Concat(Tail(ss))

IsSubstring(x, v) ==
    \E j \in 0..(Len(v) - Len(x)) : \A k \in 1..Len(x) : v[j + k] = x[k]

\* v cut just after its last vowel-bearing code point
UpToLastVowel(v) ==
    LET at == {k \in 1..Len(v) : v[k] \in VowelBearing}
    IN  IF at = {} THEN <<>>
        ELSE SubSeq(v, 1, CHOOSE k \in at : \A m \in at : m <= k)

\* zero or more code points that bear no vowel, then one that does
SyllableShape(x) ==
    /\ Len(x) >= 1
    /\ x[Len(x)] \in VowelBearing
    /\ \A k \in 1..(Len(x) - 1) : x[k] \notin VowelBearing

CountOf(lg, s) == Cardinality({k \in 1..Len(lg) : lg[k] = s})

-----------------------------------------------------------------------------
(* C1: in every state of the pipeline, mid-scan included, syllables and    *)
(* LG have the same length and every weight is L or G; once the metrics    *)
(* are computed, lcount + gcount = total = len(LG).                        *)
C1_ParallelLists ==
    /\ Len(syllables) = Len(LG)
    /\ \A k \in 1..Len(LG) : LG[k] \in Symbols
    /\ pc = "done" => /\ total = Len(LG)
                      /\ lcount + gcount = Len(LG)
                      /\ lcount = CountOf(LG, "L")
                      /\ gcount = CountOf(LG, "G")

C1_Witness ==
    /\ pc = "done"
    /\ Len(syllables) = 3
    /\ lcount = 2
    /\ gcount = 1
    /\ \E k \in 1..Len(syllables) : Len(syllables[k]) = 1

(* C2: the weights returned are the verse's vowel-bearing code points, in  *)
(* order, each mapped to G if long and to L otherwise; nothing else in the *)
(* verse (whitespace, consonants, other code points) has any effect.  The  *)
(* code's two long-vowel literals agree with the long vowels and signs on  *)
(* all of VOWELS and MATRAS.                                               *)
C2_WeightsAreVowelLengths ==
    /\ \A ch \in Chars(VOWELS) : WeightOfVowel(ch) = WeightByLength(ch)
    /\ \A ch \in Chars(MATRAS) : WeightOfMatra(ch) = WeightByLength(ch)
    /\ pc = "segmented" =>
          LG = [k \in 1..Len(VowelsIn(verse)) |-> WeightByLength(VowelsIn(verse)[k])]

C2_Witness ==
    /\ pc = "segmented"
    /\ LG = <<"G", "L">>
    /\ Len(verse) = 4
    /\ \E k \in 1..Len(verse) : verse[k] \in WHITESPACE
    /\ \E k \in 1..Len(verse) : verse[k] \notin (WHITESPACE \cup VowelBearing)

(* C9 as stated: every syllable is a contiguous substring of the verse and *)
(* is zero or more non-vowel code points followed by one vowel-bearing one *)
C9_SubstringOfVerse ==
    \A k \in 1..Len(syllables) :
        /\ IsSubstring(syllables[k], verse)
        /\ SyllableShape(syllables[k])

(* C9, amended: every syllable is a contiguous substring of the verse with *)
(* its whitespace removed (whitespace inside a syllable is dropped, so the *)
(* syllable need not occur in the verse itself), holds no whitespace, and  *)
(* is zero or more non-vowel code points followed by one vowel-bearing one *)
C9_SubstringOfUnspacedVerse ==
    \A k \in 1..Len(syllables) :
        /\ IsSubstring(syllables[k], Unspaced(verse))
        /\ \A m \in 1..Len(syllables[k]) : syllables[k][m] \notin WHITESPACE
        /\ SyllableShape(syllables[k])

C9_Witness ==
    /\ pc = "segmented"
    /\ \E k \in 1..Len(syllables) :
          /\ Len(syllables[k]) >= 2
          /\ ~IsSubstring(syllables[k], verse)

(* C10: the returned syllables, concatenated, are the verse without its    *)
(* whitespace, cut just after its last vowel-bearing code point; what      *)
(* follows that code point yields no syllable and no weight, so a verse    *)
(* without vowel-bearing code points returns two empty lists.              *)
C10_ConcatenationIsPrefix ==
    pc = "segmented" =>
        /\ Concat(syllables) = UpToLastVowel(Unspaced(verse))
        /\ Len(syllables) = Len(VowelsIn(verse))
        /\ VowelsIn(verse) = <<>> => (syllables = <<>> /\ LG = <<>>)

C10_Witness ==
    /\ pc = "segmented"
    /\ Len(syllables) >= 1
    /\ current # <<>>
    /\ \E k \in 1..Len(verse) : verse[k] \in WHITESPACE

(* C3 as stated: for total > 0 the label is Heavy iff g/t > 0.5, Light iff *)
(* g/t < 0.4 and Balanced iff 0.4 <= g/t <= 0.5; for total = 0 the ratio   *)
(* is 0 and the label Light                                                *)
C3_PartitionOnExactRatio ==
    pc = "done" =>
        IF total = 0
        THEN ratio = 0 /\ heaviness = "Light"
        ELSE /\ heaviness = "Heavy" <=> 2 * gcount > total
             /\ heaviness = "Light" <=> 5 * gcount < 2 * total
             /\ heaviness = "Balanced" <=> (5 * gcount >= 2 * total /\ 2 * gcount <= total)

(* C3, amended: the label partitions on the ratio rounded to two decimals: *)
(* Heavy iff round(g/t, 2) > 0.5, that is g/t >= 0.505; Light iff          *)
(* round(g/t, 2) < 0.4, that is g/t < 0.395; Balanced iff                  *)
(* 0.395 <= g/t < 0.505; for total = 0 the ratio is 0 and the label Light  *)
C3_PartitionOnRoundedRatio ==
    pc = "done" =>
        IF total = 0
        THEN ratio = 0 /\ heaviness = "Light"
        ELSE /\ heaviness \in {"Heavy", "Balanced", "Light"}
             /\ heaviness = "Heavy" <=> 200 * gcount >= 101 * total
             /\ heaviness = "Light" <=> 200 * gcount < 79 * total
             /\ heaviness = "Balanced" <=>
                    (200 * gcount >= 79 * total /\ 200 * gcount < 101 * total)

C3_Witness ==
    /\ pc = "done"
    /\ heaviness = "Balanced"
    /\ \/ 2 * gcount > total
       \/ 5 * gcount < 2 * total

(* C8 as stated: the entropy lies in [0, 1], is 0 iff the sequence is      *)
(* empty or homogeneous, and is 1.0 when L and G are equally many          *)
C8_ZeroIffHomogeneous ==
    pc = "done" =>
        /\ entropy \in 0..1000
        /\ entropy = 0 <=> (lcount = 0 \/ gcount = 0)
        /\ (total > 0 /\ lcount = gcount) => entropy = 1000

(* C8, amended: the entropy lies in [0, 1]; it is 0 if the sequence is     *)
(* empty or homogeneous, and 1.0 when L and G are equally many; a mixed    *)
(* sequence gives 0 as well once its entropy rounds to 0.000 (65535 L and  *)
(* one G), which no sequence of at most MaxTotal symbols does              *)
C8_ZeroIfHomogeneous ==
    pc = "done" =>
        /\ entropy \in 0..1000
        /\ (lcount = 0 \/ gcount = 0) => entropy = 0
        /\ (total <= MaxTotal /\ entropy = 0) => (lcount = 0 \/ gcount = 0)
        /\ (total > 0 /\ lcount = gcount) => entropy = 1000

C8_Witness ==
    /\ pc = "done"
    /\ entropy = 0
    /\ lcount > 0
    /\ gcount > 0

(* C4: the matrix has exactly the four keys over {L, G}; each entry is the *)
(* number of positions whose symbol and successor form that pair; the      *)
(* entries sum to max(0, len - 1).                                         *)
C4_MatrixCountsPairs ==
    pc \in {"matrix", "done"} =>
        /\ DOMAIN trans = Symbols \X Symbols
        /\ \A pr \in Symbols \X Symbols :
              trans[pr] = Cardinality({k \in 1..(Len(LG) - 1) :
                                          <<LG[k], LG[k + 1]>> = pr})
        /\ trans[<<"L", "L">>] + trans[<<"L", "G">>]
              + trans[<<"G", "L">>] + trans[<<"G", "G">>] = Max(0, Len(LG) - 1)

C4_Witness ==
    /\ pc = "matrix"
    /\ Len(LG) = 5
    /\ trans[<<"L", "G">>] = 2
    /\ trans[<<"G", "G">>] = 1
    /\ trans[<<"L", "L">>] = 0

(* C5: split_padas returns `parts' slices; slice k is the run of `size'    *)
(* symbols from index (k-1)*size when that index is below len(LG), and is  *)
(* empty otherwise; the slices concatenate to the first                    *)
(* min(len, parts*size) symbols, size = max(1, len div parts).             *)
C5_PadasArePrefixSlices ==
    pc = "done" =>
        LET size == Max(1, Len(LG) \div parts)
        IN  /\ Len(padas) = parts
            /\ \A k \in 1..parts :
                  IF (k - 1) * size < Len(LG)
                  THEN /\ Len(padas[k]) = size
                       /\ \A m \in 1..size : padas[k][m] = LG[(k - 1) * size + m]
                  ELSE padas[k] = <<>>
            /\ Concat(padas) = SubSeq(LG, 1, Min(Len(LG), parts * size))

C5_Witness ==
    /\ pc = "done"
    /\ Len(LG) = 2
    /\ parts = 4
    /\ [k \in 1..4 |-> Len(padas[k])] = <<1, 1, 0, 0>>

\* C(n) = 0 for n <= 0, C(1) = 1, C(2) = 2, C(n) = C(n-1) + C(n-2)
RECURSIVE Recurrence(_)
Recurrence(m) ==
    IF m <= 0 THEN 0
    ELSE IF m <= 2 THEN m
    ELSE Recurrence(m - 1) + Recurrence(m - 2)

(* C6: pingala_count returns on every integer, with 0 for n <= 0, 1 for    *)
(* n = 1, 2 for n = 2 and C(n-1) + C(n-2) above; its loop runs exactly     *)
(* max(0, n - 2) times.                                                    *)
C6_RecurrenceAndIterations ==
    /\ pc # "returned" => ENABLED NextPingala
    /\ iters <= Max(0, n - 2)
    /\ pc = "returned" =>
          /\ result = Recurrence(n)
          /\ iters = Max(0, n - 2)
          /\ n <= 0 => result = 0
          /\ n = 3 => result = 3
          /\ n = 5 => result = 8

C6_Witness ==
    /\ pc = "returned"
    /\ n = 5
    /\ iters = 3
    /\ result = 8

\* the metrical weight of a sequence: a laghu is 1 unit, a guru 2
RECURSIVE Matras(_)
Matras(w) ==
    IF w = <<>> THEN 0
    ELSE (IF Head(w) = "G" THEN 2 ELSE 1) + Matras(Tail(w))

(* C7: for n >= 1, pingala_count(n) is the number of sequences over        *)
(* {L, G} of total weight n, L weighing 1 and G weighing 2.                *)
C7_CountsCompositions ==
    (pc = "returned" /\ n >= 1 /\ n <= MaxWeight) =>
        result = Cardinality({w \in SeqsUpTo(Symbols, n) : Matras(w) = n})

C7_Witness ==
    /\ pc = "returned"
    /\ n = MaxWeight
    /\ result = Cardinality({w \in SeqsUpTo(Symbols, n) : Matras(w) = n})
    /\ result > n

=============================================================================
